---- MODULE Spec2Model ----
(***************************************************************************)
(* Model of the structural validator service (opencv-validator/app.py).    *)
(*                                                                         *)
(* Numbers.  Every Python float that holds an angle (degrees) is held here *)
(* as an integer number of micro-degrees: 90.0 is 90000000, 0.001 is 1000. *)
(* Pixel coordinates and image dimensions are plain integers.              *)
(*                                                                         *)
(* Optional values (a Python name that is not bound yet, or None) are      *)
(* sequences of length 0 or 1: <<>> is "absent", <<v>> is "v".             *)
(***************************************************************************)
EXTENDS Integers, Sequences, FiniteSets, TLC

VARIABLES
    body,               \* JSON body of the POST /validate-structure call
    request,            \* ValidationRequest built from the body
    pc,                 \* index of the next statement of validate_structure
    original_img,       \* local of validate_structure (optional)
    enhanced_img,       \* local of validate_structure (optional)
    original_lines,     \* local of validate_structure (optional)
    enhanced_lines,     \* local of validate_structure (optional)
    original_summary,   \* local of validate_structure (optional)
    enhanced_summary,   \* local of validate_structure (optional)
    scoring,            \* vertical_shift, horizontal_shift, deviation_score,
                        \* is_suspicious, message (optional record)
    raised,             \* exception caught by the except clause (optional)
    response,           \* HTTP response handed to the caller (optional)
    trace,              \* stages the request has completed, in order
    hough_log,          \* what cv2.HoughLinesP returned, call by call
    fn_in,              \* argument of a function applied on its own
    fn_out              \* its result (optional)

vars == <<body, request, pc, original_img, enhanced_img, original_lines,
          enhanced_lines, original_summary, enhanced_summary, scoring,
          raised, response, trace, hough_log, fn_in, fn_out>>

(***************************************************************************)
(* Bounds                                                                  *)
(***************************************************************************)
\* longest segment list the line detector returns in a request
MaxLines == 2
\* longest segment list given to classify_lines when it is applied alone
MaxSegs == 2

SeqsUpTo(S, n) == UNION {[1..k -> S] : k \in 0..n}

Abs(x) == IF x < 0 THEN -x ELSE x

(***************************************************************************)
(* Request schema                                                          *)
(***************************************************************************)
\* sensitivity: Optional[float] = 5.0
DefaultSensitivity == 5000000

ValidationRequest(b) ==
    [originalUrl |-> b.originalUrl,
     enhancedUrl |-> b.enhancedUrl,
     sensitivity |-> IF "sensitivity" \in DOMAIN b THEN b.sensitivity
                     ELSE DefaultSensitivity]

(***************************************************************************)
(* The network.  What requests.get(url, timeout=30) meets for each URL.    *)
(***************************************************************************)
Remote ==
    [u \in {"http://cdn/room-640x480.jpg", "http://cdn/room-4000x3000.jpg",
            "http://cdn/strip-4000x1.png", "http://cdn/missing.jpg",
            "http://slow/room.jpg", "http://down/room.jpg",
            "http://cdn/page.html"} |->
        CASE u = "http://cdn/room-640x480.jpg"
                -> [kind |-> "image", h |-> 480, w |-> 640, reason |-> ""]
          [] u = "http://cdn/room-4000x3000.jpg"
                -> [kind |-> "image", h |-> 3000, w |-> 4000, reason |-> ""]
          [] u = "http://cdn/strip-4000x1.png"
                -> [kind |-> "image", h |-> 4000, w |-> 1, reason |-> ""]
          [] u = "http://cdn/missing.jpg"
                -> [kind |-> "http_error", h |-> 0, w |-> 0,
                    reason |-> "404 Client Error: Not Found for url"]
          [] u = "http://slow/room.jpg"
                -> [kind |-> "timeout", h |-> 0, w |-> 0,
                    reason |-> "Read timed out. (read timeout=30)"]
          [] u = "http://down/room.jpg"
                -> [kind |-> "connection_error", h |-> 0, w |-> 0,
                    reason |-> "Connection refused"]
          [] u = "http://cdn/page.html"
                -> [kind |-> "not_an_image", h |-> 0, w |-> 0,
                    reason |-> "Failed to decode image"]]

Urls == DOMAIN Remote

\* sensitivities a caller sends; 5710593 is the shift between a 90 degree and
\* an 84.289407 degree line
Sensitivities == {5710593}

Bodies ==
    [originalUrl : Urls, enhancedUrl : Urls]
    \cup [originalUrl : Urls, enhancedUrl : Urls, sensitivity : Sensitivities]

(***************************************************************************)
(* download_image                                                          *)
(***************************************************************************)
HTTPException(code, prefix, why) ==
    [type |-> "HTTPException", status_code |-> code,
     detail |-> <<prefix, why>>]

\* str(e) of an HTTPException: "<status_code>: <detail>"
StrOfException(e) ==
    IF e.type = "HTTPException"
    THEN <<e.status_code>> \o e.detail
    ELSE e.detail

\* every failure inside the try block (requests.get raising, raise_for_status
\* raising, imdecode returning None -> ValueError) reaches `except Exception`
download_image(url) ==
    LET r == Remote[url] IN
    IF r.kind = "image"
    THEN [ok |-> TRUE, img |-> [h |-> r.h, w |-> r.w],
          exc |-> HTTPException(0, "", "")]
    ELSE [ok |-> FALSE, img |-> [h |-> 0, w |-> 0],
          exc |-> HTTPException(400, "Failed to download image: ", r.reason)]

(***************************************************************************)
(* detect_lines                                                            *)
(***************************************************************************)
max_dimension == 1920

MaxOf(a, b) == IF a > b THEN a ELSE b
MinOf(a, b) == IF a < b THEN a ELSE b

\* new_w = int(w * scale), new_h = int(h * scale) with scale = 1920 / max(h, w):
\* the integer part of w * 1920 / max(h, w).  cv2.resize raises cv2.error when
\* a requested dimension is 0.
ResizeStep(img) ==
    IF MaxOf(img.h, img.w) > max_dimension
    THEN LET new_w == (img.w * max_dimension) \div MaxOf(img.h, img.w)
             new_h == (img.h * max_dimension) \div MaxOf(img.h, img.w)
         IN  [resized |-> TRUE, h |-> new_h, w |-> new_w,
              raised |-> (new_w = 0 \/ new_h = 0)]
    ELSE [resized |-> FALSE, h |-> img.h, w |-> img.w, raised |-> FALSE]

\* Segments <<x1, y1, x2, y2>> the detector reports in a request.  Each is at
\* least minLineLength = 80 pixels long and lies inside a 101 x 101 window.
PipelineSegs ==
    { <<0, 0, 0, 100>>,      \*  90 degrees
      <<0, 0, 10, 100>>,     \*  84.289407 degrees
      <<0, 0, 100, 0>>,      \*   0 degrees
      <<0, 0, 100, 10>>,     \*   5.710593 degrees
      <<0, 0, 100, 100>> }   \*  45 degrees

\* cv2.HoughLinesP is a black box: it returns None, or an array of shape
\* (N, 1, 4) with N >= 1, here a sequence of one-element rows.
HoughOutputs ==
    {[none |-> TRUE, rows |-> <<>>]}
    \cup {[none |-> FALSE, rows |-> [i \in 1..Len(q) |-> <<q[i]>>]] :
            q \in SeqsUpTo(PipelineSegs, MaxLines) \ {<<>>}}

\* `lines[:, 0, :]` on None would raise TypeError
ReshapeLines_noNoneCheck(hough) ==
    IF hough.none
    THEN [raised |-> TRUE, lines |-> <<>>]
    ELSE [raised |-> FALSE,
          lines |-> [i \in 1..Len(hough.rows) |-> hough.rows[i][1]]]

\* if lines is None: return np.array([]);  lines = lines[:, 0, :]
ReshapeLines(hough) ==
    IF hough.none
    THEN [raised |-> FALSE, lines |-> <<>>]
    ELSE [raised |-> FALSE,
          lines |-> [i \in 1..Len(hough.rows) |-> hough.rows[i][1]]]

detect_lines(img, hough) ==
    IF ResizeStep(img).raised
    THEN [raised |-> TRUE, lines |-> <<>>,
          exc |-> [type |-> "cv2.error", status_code |-> 0,
                   detail |-> <<"OpenCV: resize: ", "inv_scale_x > 0">>]]
    ELSE [raised |-> ReshapeLines(hough).raised,
          lines |-> ReshapeLines(hough).lines,
          exc |-> [type |-> "TypeError", status_code |-> 0,
                   detail |-> <<"'NoneType' object ", "is not subscriptable">>]]

(***************************************************************************)
(* classify_lines                                                          *)
(***************************************************************************)
\* arctan of |dy| / |dx| in micro-degrees for the directions the model uses,
\* keyed by <<|dy|, |dx|>>
AtanDegTable ==
    (<<100, 100>> :> 45000000) @@ (<<100, 10>> :> 84289407)
    @@ (<<10, 100>> :> 5710593) @@ (<<12698, 2239>> :> 80000000)
    @@ (<<2239, 12698>> :> 10000000) @@ (<<15161, 2947>> :> 79000000)
    @@ (<<2947, 15161>> :> 11000000) @@ (<<10, 573>> :> 999825)

\* np.degrees(np.arctan2(dy, dx)): range (-180, 180]
Arctan2Deg(dy, dx) ==
    IF dy = 0 THEN (IF dx < 0 THEN 180000000 ELSE 0)
    ELSE IF dx = 0 THEN (IF dy > 0 THEN 90000000 ELSE -90000000)
    ELSE LET base == AtanDegTable[<<Abs(dy), Abs(dx)>>]
             mag  == IF dx > 0 THEN base ELSE 180000000 - base
         IN  IF dy > 0 THEN mag ELSE -mag

IsVerticalAngle_narrow(abs_angle) ==
    80000000 < abs_angle /\ abs_angle < 100000000

\* if 80 <= abs_angle <= 100
IsVerticalAngle(abs_angle) ==
    80000000 <= abs_angle /\ abs_angle <= 100000000

\* elif abs_angle <= 10 or abs_angle >= 170
IsHorizontalAngle(abs_angle) ==
    abs_angle <= 10000000 \/ abs_angle >= 170000000

RECURSIVE ClassifyLoop(_, _, _, _)
ClassifyLoop(lines, i, vertical_angles, horizontal_angles) ==
    IF i > Len(lines)
    THEN [vertical_angles |-> vertical_angles,
          horizontal_angles |-> horizontal_angles]
    ELSE LET angle == Arctan2Deg(lines[i][4] - lines[i][2],
                                 lines[i][3] - lines[i][1])
             abs_angle == Abs(angle)
         IN  IF IsVerticalAngle(abs_angle)
             THEN ClassifyLoop(lines, i + 1,
                               Append(vertical_angles, angle),
                               horizontal_angles)
             ELSE IF IsHorizontalAngle(abs_angle)
             THEN ClassifyLoop(lines, i + 1, vertical_angles,
                               Append(horizontal_angles, angle))
             ELSE ClassifyLoop(lines, i + 1, vertical_angles,
                               horizontal_angles)

RECURSIVE SumSeq(_)
SumSeq(s) == IF s = <<>> THEN 0 ELSE Head(s) + SumSeq(Tail(s))

\* quotient rounded to the nearest integer (the float division of np.mean)
DivRound(a, n) ==
    IF a >= 0 THEN (2 * a + n) \div (2 * n)
    ELSE -((2 * (-a) + n) \div (2 * n))

\* float(np.mean(angles)) if angles else 0.0
MeanOrZero(angles) ==
    IF Len(angles) > 0 THEN DivRound(SumSeq(angles), Len(angles)) ELSE 0

LineSummary(c, vc, hc, va, ha, av, ah) ==
    [count |-> c, verticalCount |-> vc, horizontalCount |-> hc,
     verticalAngles |-> va, horizontalAngles |-> ha,
     avgVerticalAngle |-> av, avgHorizontalAngle |-> ah]

classify_lines(lines) ==
    IF Len(lines) = 0
    THEN LineSummary(0, 0, 0, <<>>, <<>>, 0, 0)
    ELSE LET b == ClassifyLoop(lines, 1, <<>>, <<>>)
         IN  LineSummary(Len(lines),
                         Len(b.vertical_angles), Len(b.horizontal_angles),
                         b.vertical_angles, b.horizontal_angles,
                         MeanOrZero(b.vertical_angles),
                         MeanOrZero(b.horizontal_angles))

(***************************************************************************)
(* scoring and response (validate_structure)                               *)
(***************************************************************************)
VerticalShift_either(o, e) ==
    IF o.verticalCount > 0 \/ e.verticalCount > 0
    THEN Abs(e.avgVerticalAngle - o.avgVerticalAngle) ELSE 0

VerticalShift(o, e) ==
    IF o.verticalCount > 0 /\ e.verticalCount > 0
    THEN Abs(e.avgVerticalAngle - o.avgVerticalAngle) ELSE 0

HorizontalShift(o, e) ==
    IF o.horizontalCount > 0 /\ e.horizontalCount > 0
    THEN Abs(e.avgHorizontalAngle - o.avgHorizontalAngle) ELSE 0

IsSuspicious_inclusive(deviation_score, sensitivity) ==
    deviation_score >= sensitivity

\* is_suspicious = deviation_score > request.sensitivity
IsSuspicious(deviation_score, sensitivity) ==
    deviation_score > sensitivity

\* round(x, ndigits): to the nearest multiple of `step` micro-degrees, a tie
\* to the even multiple
RoundTo(x, step) ==
    LET q == x \div step
        r == x % step
    IN  IF 2 * r > step \/ (2 * r = step /\ q % 2 = 1)
        THEN (q + 1) * step ELSE q * step

Round3_truncating(x) == (x \div 1000) * 1000

\* round(x, 3)
Round3(x) == RoundTo(x, 1000)

\* f"{x:.2f}"
Format2f(x) == RoundTo(x, 10000)

Message(is_suspicious, deviation_score) ==
    IF is_suspicious
    THEN [text  |-> "Structural consistency check failed (score: {:.2f} deg)",
          score |-> Format2f(deviation_score)]
    ELSE [text  |-> "Structural validation passed: {:.2f} deg deviation",
          score |-> Format2f(deviation_score)]

Scoring(o, e, sensitivity) ==
    LET vertical_shift   == VerticalShift(o, e)
        horizontal_shift == HorizontalShift(o, e)
        deviation_score  == vertical_shift + horizontal_shift
        is_suspicious    == IsSuspicious(deviation_score, sensitivity)
    IN  [vertical_shift |-> vertical_shift,
         horizontal_shift |-> horizontal_shift,
         deviation_score |-> deviation_score,
         is_suspicious |-> is_suspicious,
         message |-> Message(is_suspicious, deviation_score)]

ValidationResponse(o, e, s) ==
    [original |-> o, enhanced |-> e,
     verticalShift |-> Round3(s.vertical_shift),
     horizontalShift |-> Round3(s.horizontal_shift),
     deviationScore |-> Round3(s.deviation_score),
     isSuspicious |-> s.is_suspicious,
     message |-> s.message]

\* what the caller receives when the endpoint returns
OkResponse(v) == [status_code |-> 200, detail |-> <<>>, json |-> <<v>>]

\* except Exception as e: raise HTTPException(500, f"Validation failed: {e}")
ExceptClause(e) ==
    [status_code |-> 500,
     detail |-> <<"Validation failed: ", StrOfException(e)>>,
     json |-> <<>>]

(***************************************************************************)
(* validate_structure, statement by statement                              *)
(***************************************************************************)
\* each image run to its summary before the next one is fetched
StatementOrder_perImage ==
    << "download_original", "detect_original", "classify_original",
       "download_enhanced", "detect_enhanced", "classify_enhanced",
       "score", "respond" >>

\* the statements of the try block, in program order
StatementOrder ==
    << "download_original", "download_enhanced",
       "detect_original", "detect_enhanced",
       "classify_original", "classify_enhanced",
       "score", "respond" >>

Stmt == IF pc \in 1..Len(StatementOrder) THEN StatementOrder[pc] ELSE "none"

Running == response = <<>>

\* original_img = download_image(request.originalUrl)
DownloadOriginal ==
    /\ Running /\ Stmt = "download_original"
    /\ LET d == download_image(request.originalUrl) IN
       IF d.ok
       THEN /\ original_img' = <<d.img>>
            /\ pc' = pc + 1
            /\ trace' = Append(trace, "original_fetched")
            /\ UNCHANGED <<raised, response>>
       ELSE /\ raised' = <<d.exc>>
            /\ response' = <<ExceptClause(d.exc)>>
            /\ UNCHANGED <<original_img, pc, trace>>
    /\ UNCHANGED <<body, request, enhanced_img, original_lines,
                   enhanced_lines, original_summary, enhanced_summary,
                   scoring, hough_log, fn_in, fn_out>>

\* enhanced_img = download_image(request.enhancedUrl)
DownloadEnhanced ==
    /\ Running /\ Stmt = "download_enhanced"
    /\ LET d == download_image(request.enhancedUrl) IN
       IF d.ok
       THEN /\ enhanced_img' = <<d.img>>
            /\ pc' = pc + 1
            /\ trace' = Append(trace, "enhanced_fetched")
            /\ UNCHANGED <<raised, response>>
       ELSE /\ raised' = <<d.exc>>
            /\ response' = <<ExceptClause(d.exc)>>
            /\ UNCHANGED <<enhanced_img, pc, trace>>
    /\ UNCHANGED <<body, request, original_img, original_lines,
                   enhanced_lines, original_summary, enhanced_summary,
                   scoring, hough_log, fn_in, fn_out>>

\* original_lines = detect_lines(original_img)
DetectOriginal ==
    /\ Running /\ Stmt = "detect_original"
    /\ \E hough \in HoughOutputs :
         LET d == detect_lines(original_img[1], hough) IN
         /\ hough_log' = IF ResizeStep(original_img[1]).raised THEN hough_log
                          ELSE Append(hough_log, hough)
         /\ IF d.raised
            THEN /\ raised' = <<d.exc>>
                 /\ response' = <<ExceptClause(d.exc)>>
                 /\ UNCHANGED <<original_lines, pc, trace>>
            ELSE /\ original_lines' = <<d.lines>>
                 /\ pc' = pc + 1
                 /\ trace' = Append(trace, "original_detected")
                 /\ UNCHANGED <<raised, response>>
    /\ UNCHANGED <<body, request, original_img, enhanced_img,
                   enhanced_lines, original_summary, enhanced_summary,
                   scoring, fn_in, fn_out>>

\* enhanced_lines = detect_lines(enhanced_img)
DetectEnhanced ==
    /\ Running /\ Stmt = "detect_enhanced"
    /\ \E hough \in HoughOutputs :
         LET d == detect_lines(enhanced_img[1], hough) IN
         /\ hough_log' = IF ResizeStep(enhanced_img[1]).raised THEN hough_log
                          ELSE Append(hough_log, hough)
         /\ IF d.raised
            THEN /\ raised' = <<d.exc>>
                 /\ response' = <<ExceptClause(d.exc)>>
                 /\ UNCHANGED <<enhanced_lines, pc, trace>>
            ELSE /\ enhanced_lines' = <<d.lines>>
                 /\ pc' = pc + 1
                 /\ trace' = Append(trace, "enhanced_detected")
                 /\ UNCHANGED <<raised, response>>
    /\ UNCHANGED <<body, request, original_img, enhanced_img,
                   original_lines, original_summary, enhanced_summary,
                   scoring, fn_in, fn_out>>

\* original_summary = classify_lines(original_lines)
ClassifyOriginal ==
    /\ Running /\ Stmt = "classify_original"
    /\ original_summary' = <<classify_lines(original_lines[1])>>
    /\ pc' = pc + 1
    /\ trace' = Append(trace, "original_classified")
    /\ UNCHANGED <<body, request, original_img, enhanced_img,
                   original_lines, enhanced_lines, enhanced_summary,
                   scoring, raised, response, hough_log, fn_in, fn_out>>

\* enhanced_summary = classify_lines(enhanced_lines)
ClassifyEnhanced ==
    /\ Running /\ Stmt = "classify_enhanced"
    /\ enhanced_summary' = <<classify_lines(enhanced_lines[1])>>
    /\ pc' = pc + 1
    /\ trace' = Append(trace, "enhanced_classified")
    /\ UNCHANGED <<body, request, original_img, enhanced_img,
                   original_lines, enhanced_lines, original_summary,
                   scoring, raised, response, hough_log, fn_in, fn_out>>

\* vertical_shift, horizontal_shift, deviation_score, is_suspicious, message
Score ==
    /\ Running /\ Stmt = "score"
    /\ scoring' = <<Scoring(original_summary[1], enhanced_summary[1],
                            request.sensitivity)>>
    /\ pc' = pc + 1
    /\ trace' = Append(trace, "scored")
    /\ UNCHANGED <<body, request, original_img, enhanced_img,
                   original_lines, enhanced_lines, original_summary,
                   enhanced_summary, raised, response, hough_log,
                   fn_in, fn_out>>

\* return ValidationResponse(...)
Respond ==
    /\ Running /\ Stmt = "respond"
    /\ response' = <<OkResponse(ValidationResponse(original_summary[1],
                                                   enhanced_summary[1],
                                                   scoring[1]))>>
    /\ pc' = pc + 1
    /\ trace' = Append(trace, "responded")
    /\ UNCHANGED <<body, request, original_img, enhanced_img,
                   original_lines, enhanced_lines, original_summary,
                   enhanced_summary, scoring, raised, hough_log,
                   fn_in, fn_out>>

Init ==
    /\ body \in Bodies
    /\ request = ValidationRequest(body)
    /\ pc = 1
    /\ original_img = <<>> /\ enhanced_img = <<>>
    /\ original_lines = <<>> /\ enhanced_lines = <<>>
    /\ original_summary = <<>> /\ enhanced_summary = <<>>
    /\ scoring = <<>> /\ raised = <<>> /\ response = <<>>
    /\ trace = <<"received">>
    /\ hough_log = <<>>
    /\ fn_in = <<>> /\ fn_out = <<>>

Next ==
    \/ DownloadOriginal
    \/ DownloadEnhanced
    \/ DetectOriginal
    \/ DetectEnhanced
    \/ ClassifyOriginal
    \/ ClassifyEnhanced
    \/ Score
    \/ Respond

Spec == Init /\ [][Next]_vars

(***************************************************************************)
(* classify_lines applied on its own                                       *)
(***************************************************************************)
\* no request is in progress
Idle ==
    /\ body = [originalUrl |-> "", enhancedUrl |-> ""]
    /\ request = [originalUrl |-> "", enhancedUrl |-> "", sensitivity |-> 0]
    /\ pc = 0
    /\ original_img = <<>> /\ enhanced_img = <<>>
    /\ original_lines = <<>> /\ enhanced_lines = <<>>
    /\ original_summary = <<>> /\ enhanced_summary = <<>>
    /\ scoring = <<>> /\ raised = <<>> /\ response = <<>>
    /\ trace = <<>>
    /\ hough_log = <<>>

\* the segment from the pixel (max(0,-dx), max(0,-dy)) in direction (dx, dy)
Seg(dx, dy) ==
    LET x1 == IF dx < 0 THEN -dx ELSE 0
        y1 == IF dy < 0 THEN -dy ELSE 0
    IN  <<x1, y1, x1 + dx, y1 + dy>>

\* |dy|, |dx| of the oblique directions: 45, 84.289407, 5.710593, 80, 10, 79,
\* 11 and 0.999825 degrees in the first quadrant
ObliqueDirs == DOMAIN AtanDegTable

ClassifySegs ==
    {Seg(sx * d[2], sy * d[1]) : sx \in {-1, 1}, sy \in {-1, 1},
                                 d \in ObliqueDirs}
    \cup {Seg(100, 0), Seg(-100, 0), Seg(0, 100), Seg(0, -100)}

InitClassify ==
    /\ Idle
    /\ fn_in \in SeqsUpTo(ClassifySegs, MaxSegs)
    /\ fn_out = <<>>

ApplyClassify ==
    /\ pc = 0 /\ fn_out = <<>>
    /\ fn_out' = <<classify_lines(fn_in)>>
    /\ UNCHANGED <<body, request, pc, original_img, enhanced_img,
                   original_lines, enhanced_lines, original_summary,
                   enhanced_summary, scoring, raised, response, trace,
                   hough_log, fn_in>>

NextClassify == ApplyClassify

SpecClassify == InitClassify /\ [][NextClassify]_vars

(***************************************************************************)
(* the resize step of detect_lines applied on its own                      *)
(***************************************************************************)
ImageDims == {1, 2, 480, 1080, 1920, 1921, 3000, 3840, 4000}

InitResize ==
    /\ Idle
    /\ fn_in \in [h : ImageDims, w : ImageDims]
    /\ fn_out = <<>>

ApplyResize ==
    /\ pc = 0 /\ fn_out = <<>>
    /\ fn_out' = <<ResizeStep(fn_in)>>
    /\ UNCHANGED <<body, request, pc, original_img, enhanced_img,
                   original_lines, enhanced_lines, original_summary,
                   enhanced_summary, scoring, raised, response, trace,
                   hough_log, fn_in>>

NextResize == ApplyResize

SpecResize == InitResize /\ [][NextResize]_vars

(***************************************************************************)
(* Properties                                                              *)
(***************************************************************************)
Range(q) == {q[i] : i \in DOMAIN q}

\* position of a stage in the trace, 0 when the stage was not reached
Pos(stage) ==
    IF stage \in Range(trace)
    THEN CHOOSE i \in DOMAIN trace : trace[i] = stage
    ELSE 0

IsPrefix(p, q) == Len(p) <= Len(q) /\ \A i \in DOMAIN p : p[i] = q[i]

Succeeded == response # <<>> /\ response[1].status_code = 200

\* the exception the except clause caught came out of download_image
FetchFailed == raised # <<>> /\ raised[1].type = "HTTPException"

\* C1: a request whose image retrieval or decoding fails is answered with
\* HTTP 400 and detail "Failed to download image: <reason>"; HTTP 500 is
\* produced only for failures that are not fetch/decode failures.
C1_FetchFailureIs400 ==
    response # <<>> =>
        /\ FetchFailed =>
              /\ response[1].status_code = 400
              /\ response[1].detail[1] = "Failed to download image: "
        /\ response[1].status_code = 500 => ~FetchFailed

\* C2: when the fetch/decode of either image fails the request ends with an
\* error response, classify_lines has not run for either image and no
\* ValidationResponse is returned.
C2_FetchFailureAborts ==
    FetchFailed =>
        /\ response # <<>>
        /\ response[1].status_code # 200
        /\ response[1].json = <<>>
        /\ original_summary = <<>> /\ enhanced_summary = <<>>
        /\ "original_classified" \notin Range(trace)
        /\ "enhanced_classified" \notin Range(trace)
        /\ scoring = <<>>

\* the enhanced fetch failed after the original image had been fetched
C2_Witness ==
    /\ FetchFailed
    /\ original_img # <<>>
    /\ enhanced_img = <<>>
    /\ response # <<>>

\* C3 as stated: a successful request goes received, original fetched,
\* original detected and classified, enhanced fetched, enhanced detected and
\* classified, scored, responded.
C3_PerImageStageOrder ==
    Succeeded =>
        /\ Pos("received") = 1
        /\ Pos("received") < Pos("original_fetched")
        /\ Pos("original_fetched") < Pos("original_detected")
        /\ Pos("original_detected") < Pos("original_classified")
        /\ Pos("original_classified") < Pos("enhanced_fetched")
        /\ Pos("enhanced_fetched") < Pos("enhanced_detected")
        /\ Pos("enhanced_detected") < Pos("enhanced_classified")
        /\ Pos("enhanced_classified") < Pos("scored")
        /\ Pos("scored") < Pos("responded")

\* C3 amended: the stages of every request are a prefix of received, original
\* fetched, enhanced fetched, original detected, enhanced detected, original
\* classified, enhanced classified, scored, responded; a successful request
\* has passed through all of them; scoring exists only once both summaries do.
C3_FetchBothThenProcess ==
    LET order == << "received", "original_fetched", "enhanced_fetched",
                    "original_detected", "enhanced_detected",
                    "original_classified", "enhanced_classified",
                    "scored", "responded" >>
    IN  /\ IsPrefix(trace, order)
        /\ Succeeded => trace = order
        /\ scoring # <<>> =>
              original_summary # <<>> /\ enhanced_summary # <<>>

C3_Witness ==
    /\ Succeeded
    /\ Len(trace) = 9
    /\ Pos("enhanced_fetched") < Pos("original_detected")

\* C4: classify_lines puts each segment in exactly one of vertical
\* (80 <= a <= 100), horizontal (a <= 10 or a >= 170) or discarded, with
\* a = |atan2(y2 - y1, x2 - x1)| in degrees; the lists keep the signed angles
\* in input order, the counts are the list lengths, count is the number of
\* input segments and count >= verticalCount + horizontalCount.
C4_ClassificationPartition ==
    fn_out # <<>> /\ fn_in \in Seq(ClassifySegs) =>
        LET s == fn_out[1]
            angles == [i \in DOMAIN fn_in |->
                         Arctan2Deg(fn_in[i][4] - fn_in[i][2],
                                    fn_in[i][3] - fn_in[i][1])]
            InV(a) == 80000000 <= Abs(a) /\ Abs(a) <= 100000000
            InH(a) == Abs(a) <= 10000000 \/ Abs(a) >= 170000000
        IN  /\ \A i \in DOMAIN angles : ~(InV(angles[i]) /\ InH(angles[i]))
            /\ s.verticalAngles = SelectSeq(angles, InV)
            /\ s.horizontalAngles = SelectSeq(angles, InH)
            /\ s.verticalCount = Len(s.verticalAngles)
            /\ s.horizontalCount = Len(s.horizontalAngles)
            /\ s.count = Len(fn_in)
            /\ s.count >= s.verticalCount + s.horizontalCount
            /\ s.count - s.verticalCount - s.horizontalCount
                 = Cardinality({i \in DOMAIN angles :
                                   ~InV(angles[i]) /\ ~InH(angles[i])})

\* a segment at exactly 80 degrees is vertical, one at 169 degrees is dropped
C4_Witness ==
    /\ fn_out # <<>> /\ fn_in \in Seq(ClassifySegs)
    /\ Len(fn_in) = 2
    /\ fn_in[1] = Seg(2239, 12698)
    /\ fn_in[2] = Seg(-15161, 2947)
    /\ fn_out[1].verticalAngles = <<80000000>>
    /\ fn_out[1].horizontalCount = 0
    /\ fn_out[1].count = 2

\* C5: verticalShift is |enhanced.avgVerticalAngle - original.avgVerticalAngle|
\* when both verticalCount values are > 0 and 0.0 when either is 0, whatever
\* the averages are; horizontalShift likewise.
C5_ShiftsNeedBothCounts ==
    scoring # <<>> =>
        LET o == original_summary[1]
            e == enhanced_summary[1]
            v == scoring[1].vertical_shift
            h == scoring[1].horizontal_shift
        IN  /\ (o.verticalCount = 0 \/ e.verticalCount = 0) => v = 0
            /\ (o.verticalCount > 0 /\ e.verticalCount > 0) =>
                  /\ v >= 0
                  /\ \/ v = e.avgVerticalAngle - o.avgVerticalAngle
                     \/ v = o.avgVerticalAngle - e.avgVerticalAngle
            /\ (o.horizontalCount = 0 \/ e.horizontalCount = 0) => h = 0
            /\ (o.horizontalCount > 0 /\ e.horizontalCount > 0) =>
                  /\ h >= 0
                  /\ \/ h = e.avgHorizontalAngle - o.avgHorizontalAngle
                     \/ h = o.avgHorizontalAngle - e.avgHorizontalAngle

\* no vertical line in the original, vertical lines in the enhanced image
C5_Witness ==
    /\ scoring # <<>>
    /\ original_summary[1].verticalCount = 0
    /\ enhanced_summary[1].verticalCount > 0
    /\ enhanced_summary[1].avgVerticalAngle # 0
    /\ scoring[1].vertical_shift = 0
    /\ scoring[1].horizontal_shift > 0

\* C6 as stated: in every ValidationResponse both shifts are >= 0 and the
\* deviationScore field is the sum of the verticalShift and horizontalShift
\* fields of the same response.
C6_ScoreFieldIsSumOfShiftFields ==
    Succeeded =>
        LET r == response[1].json[1]
        IN  /\ r.verticalShift >= 0
            /\ r.horizontalShift >= 0
            /\ r.deviationScore = r.verticalShift + r.horizontalShift

\* C6 amended: both shift fields are >= 0; each of the three fields is its
\* full-precision value rounded to 3 decimals; the full-precision score is the
\* sum of the full-precision shifts; so the deviationScore field is within
\* 0.001 of the sum of the two shift fields.
C6_FieldsRoundedIndependently ==
    Succeeded =>
        LET r == response[1].json[1]
            f == scoring[1]
            Near(field, full) == field % 1000 = 0 /\ Abs(field - full) <= 500
        IN  /\ r.verticalShift >= 0
            /\ r.horizontalShift >= 0
            /\ f.deviation_score = f.vertical_shift + f.horizontal_shift
            /\ Near(r.verticalShift, f.vertical_shift)
            /\ Near(r.horizontalShift, f.horizontal_shift)
            /\ Near(r.deviationScore, f.deviation_score)
            /\ Abs(r.deviationScore
                     - (r.verticalShift + r.horizontalShift)) <= 1000

\* a response whose deviationScore differs from the sum of its shift fields
C6_Witness ==
    /\ Succeeded
    /\ response[1].json[1].verticalShift > 0
    /\ response[1].json[1].horizontalShift > 0
    /\ response[1].json[1].deviationScore
         # response[1].json[1].verticalShift
           + response[1].json[1].horizontalShift

\* C7: isSuspicious is true iff the full-precision deviation score is strictly
\* greater than the sensitivity (5.0 when the caller omits it), and the message
\* is the "check failed" text exactly when isSuspicious is true.
C7_StrictThreshold ==
    Succeeded =>
        LET r == response[1].json[1]
            sensitivity == IF "sensitivity" \in DOMAIN body
                           THEN body.sensitivity ELSE 5000000
        IN  /\ r.isSuspicious <=> (scoring[1].deviation_score > sensitivity)
            /\ r.isSuspicious =>
                 r.message.text
                   = "Structural consistency check failed (score: {:.2f} deg)"
            /\ ~r.isSuspicious =>
                 r.message.text
                   = "Structural validation passed: {:.2f} deg deviation"

\* a score exactly equal to a non-zero sensitivity, whose rounded field is
\* above the sensitivity, is not suspicious
C7_Witness ==
    /\ Succeeded
    /\ scoring[1].deviation_score = request.sensitivity
    /\ response[1].json[1].deviationScore > request.sensitivity
    /\ ~response[1].json[1].isSuspicious

\* the detector ran on both images and found no line in at least one
NoLinesFound ==
    /\ Len(hough_log) = 2
    /\ hough_log[1].none \/ hough_log[2].none

FlipFirst(lines) ==
    [i \in DOMAIN lines |->
        IF i = 1
        THEN <<lines[i][3], lines[i][4], lines[i][1], lines[i][2]>>
        ELSE lines[i]]

\* C9: the average of a non-empty bucket lies in the bucket's own band
\* (80 <= |avgVerticalAngle| <= 100; |avgHorizontalAngle| <= 10 or >= 170)
\* and, as an orientation (modulo 180 degrees), does not depend on which
\* endpoint of a segment is listed first.
C9_AveragesAreCircular ==
    fn_out # <<>> /\ fn_in \in Seq(ClassifySegs) =>
        LET s == fn_out[1]
            t == classify_lines(FlipFirst(fn_in))
        IN  /\ s.verticalCount > 0 =>
                 /\ 80000000 <= Abs(s.avgVerticalAngle)
                 /\ Abs(s.avgVerticalAngle) <= 100000000
            /\ s.horizontalCount > 0 =>
                 \/ Abs(s.avgHorizontalAngle) <= 10000000
                 \/ Abs(s.avgHorizontalAngle) >= 170000000
            /\ (t.avgVerticalAngle - s.avgVerticalAngle) % 180000000 = 0
            /\ (t.avgHorizontalAngle - s.avgHorizontalAngle) % 180000000 = 0

\* C10: for an image with height > 0 and width > 0 the resize step yields an
\* image with height > 0 and width > 0 whose longer side is
\* min(max(height, width), 1920): unchanged when max(height, width) <= 1920,
\* otherwise both sides scaled by 1920 / max(height, width) and truncated.
C10_ResizeKeepsPositiveDims ==
    fn_out # <<>> /\ fn_in \in [h : ImageDims, w : ImageDims] =>
        LET m == MaxOf(fn_in.h, fn_in.w)
            r == fn_out[1]
        IN  /\ ~r.raised
            /\ r.h > 0 /\ r.w > 0
            /\ MaxOf(r.h, r.w) = MinOf(m, 1920)
            /\ m <= 1920 => (r.h = fn_in.h /\ r.w = fn_in.w)
            /\ m > 1920 => /\ r.h = (fn_in.h * 1920) \div m
                           /\ r.w = (fn_in.w * 1920) \div m

====
